---------------------------- MODULE Spec2Model ----------------------------
(***************************************************************************)
(* Model of src/app.py: the per-call dialogue state machine of the Pat     *)
(* Glam voice assistant (Flask webhooks /voice, /resposta, /wrap_followup  *)
(* and /status_callback over a key-value store).                           *)
(*                                                                         *)
(* Texts (speech results, stored slots) are sequences of one-character     *)
(* strings, so that the keyword tests and the handle normaliser are        *)
(* computed character by character as the Python code does.  An accented   *)
(* letter is one character written with a trailing mark ("a~" is a-tilde). *)
(* Each request is served by a worker; a handler is a sequence of steps,   *)
(* one per store operation or external call, so that requests served by    *)
(* different workers interleave between those operations.                  *)
(***************************************************************************)
EXTENDS Naturals, Sequences, FiniteSets, TLC

(***************************************************************************)
(* Bounds of the model.                                                    *)
(***************************************************************************)
\* requests accepted in one behaviour when they arrive one after the other
MaxRequests == 3
\* requests accepted in one behaviour when they are served concurrently
MaxConcurrent == 2
\* tokens concatenated into one input text of the handle normaliser
MaxTokens == 3
\* requests accepted in one behaviour when OpenAI and SMTP may fail
MaxFaulty == 2
\* requests accepted in one behaviour when the store's commands may fail
MaxRedis == 2
\* consecutive reprompts in one stage after which a closing message is due
RetryCap == 2
\* /resposta turns accepted in one behaviour of the consent stage on its own
MaxConsentTurns == 2

\* call identifiers (CallSid) in use
CallIds == {"CA1", "CA2"}
\* request workers (threads of the server), in the order they are handed requests
WorkerOrder == <<"w1", "w2">>
Workers == {WorkerOrder[i] : i \in 1..Len(WorkerOrder)}

(***************************************************************************)
(* Text helpers: the str methods the code uses.                            *)
(***************************************************************************)
UpperCase == <<"A","B","C","D","E","F","G","H","I","J","K","L","M","N","O","P","Q","R","S","T","U","V","W","X","Y","Z","A~">>
LowerCase == <<"a","b","c","d","e","f","g","h","i","j","k","l","m","n","o","p","q","r","s","t","u","v","w","x","y","z","a~">>

\* str.lower() on one character
LowerChar(ch) ==
    IF \E i \in 1..Len(UpperCase) : UpperCase[i] = ch
    THEN LowerCase[CHOOSE i \in 1..Len(UpperCase) : UpperCase[i] = ch]
    ELSE ch

\* str.lower()
Lower(t) == [i \in 1..Len(t) |-> LowerChar(t[i])]

\* str.startswith(p)
StartsWith(t, p) == Len(t) >= Len(p) /\ SubSeq(t, 1, Len(p)) = p

\* p in t (substring test)
Contains(t, p) ==
    \E i \in 0..(Len(t) - Len(p)) : SubSeq(t, i + 1, i + Len(p)) = p

RECURSIVE LStrip(_)
LStrip(t) == IF t # <<>> /\ Head(t) = " " THEN LStrip(Tail(t)) ELSE t

RECURSIVE RStrip(_)
RStrip(t) ==
    IF t # <<>> /\ t[Len(t)] = " " THEN RStrip(SubSeq(t, 1, Len(t) - 1)) ELSE t

\* str.strip()
Strip(t) == RStrip(LStrip(t))

\* str.replace(old, new): leftmost non-overlapping occurrences, old non-empty
RECURSIVE Replace(_, _, _)
Replace(t, old, new) ==
    IF Len(t) < Len(old) THEN t
    ELSE IF SubSeq(t, 1, Len(old)) = old
         THEN new \o Replace(SubSeq(t, Len(old) + 1, Len(t)), old, new)
         ELSE <<Head(t)>> \o Replace(Tail(t), old, new)

(***************************************************************************)
(* Keyword lists and NLU helpers.                                          *)
(***************************************************************************)
YesWords == {
    <<"s", "i", "m">>,
    <<"c", "l", "a", "r", "o">>,
    <<"p", "o", "r", " ", "f", "a", "v", "o", "r">>,
    <<"p", "o", "d", "e">>,
    <<"q", "u", "e", "r", "o">>,
    <<"m", "a", "n", "d", "a">>,
    <<"y", "e", "s">>,
    <<"y", "e", "p">> }

NoWords == {
    <<"n", "a~", "o">>,
    <<"n", "a", "o">>,
    <<"n", "e", "g", "a", "t", "i", "v", "o">>,
    <<"p", "r", "e", "f", "i", "r", "o", " ", "n", "a~", "o">>,
    <<"p", "r", "e", "f", "i", "r", "o", " ", "n", "a", "o">>,
    <<"n", "o", "p", "e">>,
    <<"n", "a~", "o", " ", "a", "g", "o", "r", "a">> }

ProWords == {
    <<"p", "r", "o", "f", "i", "s", "s">>,
    <<"c", "a", "b", "e", "l", "e", "i", "r", "e", "i", "r">>,
    <<"s", "a", "l", "a~", "o">> }

FinalWords == {
    <<"c", "l", "i", "e", "n", "t", "e">>,
    <<"f", "i", "n", "a", "l">> }

is_yes_accepts_empty(text) ==
    LET t == Lower(Strip(text))
    IN  (\E w \in YesWords \cup {<<>>} : Contains(t, w)) \/ t = <<"1">>

is_yes(text) ==
    LET t == Lower(Strip(text))
    IN  (\E w \in YesWords : Contains(t, w)) \/ t = <<"1">>

is_no(text) ==
    LET t == Lower(Strip(text))
    IN  (\E w \in NoWords : Contains(t, w)) \/ t = <<"2">>

At == <<"@">>
Arroba == <<"a", "r", "r", "o", "b", "a">>

looks_like_instagram(text) ==
    LET t0 == Strip(text)
        t1 == Lower(Replace(Replace(t0, Arroba, At), <<" ">>, <<>>))
    IN  IF t0 = <<>> THEN <<>>
        ELSE IF ~StartsWith(t1, At) /\ Contains(t1, At) THEN t1
        ELSE IF ~StartsWith(t1, At) THEN At \o t1
        ELSE t1


(***************************************************************************)
(* Request inputs.                                                         *)
(***************************************************************************)
NoText == <<>>
SayPro == <<"E", "u", " ", "s", "o", "u", " ", "c", "a", "b", "e", "l", "e", "i", "r", "e", "i", "r", "a">>
SayFinal == <<"c", "l", "i", "e", "n", "t", "e">>
SayYes == <<"s", "i", "m", " ", "e", "u", " ", "q", "u", "e", "r", "o">>
SayNo == <<"n", "a~", "o">>

\* SpeechResult values a /resposta request may carry
Speeches == {NoText, SayPro, SayYes, SayNo}
\* Digits values a /resposta request may carry
DigitInputs == {"", "1", "2"}
\* CallStatus values Twilio posts (src/app.py:318)
Statuses == {"ringing", "completed"}

(***************************************************************************)
(* State.                                                                  *)
(***************************************************************************)
VARIABLES
    memory,      \* the key-value store (_memory, or the Redis database)
    req,         \* per worker: the request it serves, its locals and position
    autosend,    \* WHATSAPP_AUTOSEND and TWILIO_WHATSAPP_FROM are both set
    summarized,  \* per call id: calls of summarize_history
    dispatched,  \* per call id: calls of send_summary
    completed,   \* per call id: 'completed' notifications fully processed
    waMsgs,      \* per call id: WhatsApp messages twilio accepted
    nreq,        \* requests accepted so far
    serial,      \* the server takes the next request after the previous response
    flaky,       \* OpenAI and SMTP may fail
    redis,       \* the store is Redis (not USE_MEMORY) and its commands may fail
    useGptTone,  \* USE_GPT_TONE
    retries,     \* per call id: consecutive reprompts of classify / ask_whatsapp
    text,        \* an input text of the handle normaliser
    norm         \* the results of applying the normaliser to it, repeatedly

vars == <<memory, req, autosend, summarized, dispatched, completed, waMsgs, nreq,
          serial, flaky, redis, useGptTone, retries, text, norm>>

\* what no request changes: the configuration, and the normaliser's bench
fixed == <<autosend, serial, flaky, redis, useGptTone, text, norm>>

(***************************************************************************)
(* The store.                                                              *)
(***************************************************************************)
conv_key(call_sid) == "conv:" \o call_sid

sess_key_shared(call_sid) == "sess:"

sess_key(call_sid) == "sess:" \o call_sid

mem_set(mem, key, value) ==
    [k \in DOMAIN mem \cup {key} |-> IF k = key THEN value ELSE mem[k]]

mem_delete(mem, key) == [k \in DOMAIN mem \ {key} |-> mem[k]]

mem_rpush_front(mem, key, value) ==
    mem_set(mem, key, <<value>> \o (IF key \in DOMAIN mem THEN mem[key] ELSE <<>>))

mem_rpush(mem, key, value) ==
    mem_set(mem, key, (IF key \in DOMAIN mem THEN mem[key] ELSE <<>>) \o <<value>>)

\* _mem_lrange(key, 0, -1)
mem_lrange(mem, key) == IF key \in DOMAIN mem THEN mem[key] ELSE <<>>

EmptyData == [k \in {} |-> k]

FreshSession == [state |-> "classify", data |-> EmptyData, wa_sent |-> FALSE]

append_conv(mem, call_sid, role, content) ==
    mem_rpush(mem, conv_key(call_sid), [role |-> role, content |-> content])

get_conv(mem, call_sid) == mem_lrange(mem, conv_key(call_sid))

\* the stored value is a JSON copy of the session: a dict of str keys with
\* str and bool values, which json.loads(json.dumps(.)) gives back unchanged
get_session(mem, call_sid) ==
    IF sess_key(call_sid) \in DOMAIN mem THEN mem[sess_key(call_sid)]
    ELSE FreshSession

save_session(mem, call_sid, sess) == mem_set(mem, sess_key(call_sid), sess)

\* what one store command does: it returns, or (Redis only) it raises
StoreOutcomes == IF redis THEN BOOLEAN ELSE {TRUE}

\* the helpers with their except clauses: a command that raises is logged;
\* a read then gives the fresh session or the empty list, a write is dropped
try_append_conv(mem, call_sid, role, content, ok) ==
    IF ok THEN append_conv(mem, call_sid, role, content) ELSE mem

try_get_conv(mem, call_sid, ok) == IF ok THEN get_conv(mem, call_sid) ELSE <<>>

try_get_session(mem, call_sid, ok) ==
    IF ok THEN get_session(mem, call_sid) ELSE FreshSession

try_save_session(mem, call_sid, sess, ok) ==
    IF ok THEN save_session(mem, call_sid, sess) ELSE mem

\* data[key] = value on a dict
DataSet(data, key, value) ==
    [k \in DOMAIN data \cup {key} |-> IF k = key THEN value ELSE data[k]]

(***************************************************************************)
(* The dialogue state machine.                                             *)
(***************************************************************************)
next_state_skips(current, profile) ==
    IF current = "classify"
    THEN (IF profile # "final" THEN "ask_city" ELSE "final_flow")
    ELSE IF current = "ask_city" THEN "ask_instagram"
    ELSE IF current = "ask_experience" THEN "ask_instagram"
    ELSE IF current = "ask_instagram" THEN "ask_whatsapp"
    ELSE "wrap"

next_state(current, profile) ==
    IF current = "classify"
    THEN (IF profile # "final" THEN "ask_city" ELSE "final_flow")
    ELSE IF current = "ask_city" THEN "ask_experience"
    ELSE IF current = "ask_experience" THEN "ask_instagram"
    ELSE IF current = "ask_instagram" THEN "ask_whatsapp"
    ELSE IF current = "ask_whatsapp" THEN "wrap"
    ELSE "wrap"

\* the profile the classify handler derives ("none" is Python's None)
ClassifyProfile(speech, digits) ==
    LET t == Lower(speech)
    IN  IF digits = "1" \/ \E w \in ProWords : Contains(t, w) THEN "pro"
        ELSE IF digits = "2" \/ \E w \in FinalWords : Contains(t, w) THEN "final"
        ELSE "none"

Consent_negation_first(speech, digits) ==
    IF digits \in {"1", "2"} THEN (IF digits = "1" THEN "yes" ELSE "no")
    ELSE IF is_no(speech) THEN "no"
    ELSE IF is_yes(speech) THEN "yes"
    ELSE "none"

\* the consent the ask_whatsapp handler derives ("none" is Python's None)
Consent(speech, digits) ==
    IF digits \in {"1", "2"} THEN (IF digits = "1" THEN "yes" ELSE "no")
    ELSE IF is_yes(speech) THEN "yes"
    ELSE IF is_no(speech) THEN "no"
    ELSE "none"

HandledStates == {"classify", "ask_city", "ask_experience", "ask_instagram", "ask_whatsapp"}

Branch_restarts(state) == IF state \in HandledStates THEN state ELSE "classify"

\* the branch of the if/elif chain of resposta() taken for a stored state
Branch(state) == IF state \in HandledStates THEN state ELSE "default"

SlotOf_misfiles(state) ==
    IF state = "ask_city" THEN "city"
    ELSE IF state = "ask_experience" THEN "city"
    ELSE "instagram"

\* the slot an answering stage fills from the speech
SlotOf(state) ==
    IF state = "ask_city" THEN "city"
    ELSE IF state = "ask_experience" THEN "experience"
    ELSE "instagram"

SlotValue(state, speech) ==
    IF state = "ask_instagram" THEN looks_like_instagram(speech) ELSE speech

\* the text wrap_up(data) speaks: the three slots, or their stand-ins
SlotOr(data, key, other) ==
    IF key \in DOMAIN data /\ data[key] # <<>> THEN data[key] ELSE other

wrap_up(data) ==
    <<"[wrap_up]">> \o SlotOr(data, "city", <<"sua cidade">>)
        \o <<"|">> \o SlotOr(data, "experience", <<"seu metodo">>)
        \o <<"|">> \o SlotOr(data, "instagram", <<"seu Instagram">>)

(***************************************************************************)
(* The collaborators: OpenAI (tone, summary) and SMTP.                     *)
(***************************************************************************)
\* what chat.completions.create does: it answers with a text, it answers
\* with blanks only, or it raises
ToneOutcomes ==
    IF ~useGptTone THEN {"unused"}
    ELSE IF flaky THEN {"text", "blank", "raise"} ELSE {"text", "blank"}

glam_tone_raises(base_text, outcome) ==
    IF ~useGptTone THEN base_text
    ELSE IF outcome = "text" THEN "glam " \o base_text
    ELSE IF outcome = "blank" THEN base_text
    ELSE "error"

\* the text spoken for base_text: the rewritten one, or base_text itself when
\* rewriting is off, the answer is blank or the call raises
glam_tone(base_text, outcome) ==
    IF ~useGptTone THEN base_text
    ELSE IF outcome = "text" THEN "glam " \o base_text
    ELSE base_text

SummaryOutcomes == IF flaky THEN {"text", "blank", "raise"} ELSE {"text"}

\* sep.join(lines)
RECURSIVE Join(_, _)
Join(lines, sep) ==
    IF lines = <<>> THEN <<>>
    ELSE IF Len(lines) = 1 THEN lines[1]
    ELSE lines[1] \o sep \o Join(Tail(lines), sep)

\* the raw transcript of the except clause of summarize_history
RawTranscript(history) ==
    LET raw == Join([i \in 1..Len(history) |->
                        <<history[i].role, ": ">> \o history[i].content], <<"\n">>)
    IN  IF raw # <<>> THEN raw ELSE <<"(sem historico)">>

DegradedBrief(history, call_sid) ==
    <<"CallSid: ", call_sid, "\n", "Resumo indisponivel (erro ao gerar).", "\n\n",
      "Transcricao bruta:", "\n">> \o RawTranscript(history)

EmptyBrief(call_sid) == <<"CallSid: ", call_sid, "\n", "(Conversa vazia para resumir)">>

summarize_history_forgets(history, call_sid, outcome) ==
    IF outcome = "raise" THEN DegradedBrief(<<>>, call_sid)
    ELSE LET content == IF outcome = "text" THEN <<"[resumo]">> ELSE <<" ", " ">>
             summary == Strip(content)
         IN  IF summary # <<>> THEN summary ELSE EmptyBrief(call_sid)

\* the brief summarize_history returns for what the generator did
summarize_history(history, call_sid, outcome) ==
    IF outcome = "raise" THEN DegradedBrief(history, call_sid)
    ELSE LET content == IF outcome = "text" THEN <<"[resumo]">> ELSE <<" ", " ">>
             summary == Strip(content)
         IN  IF summary # <<>> THEN summary ELSE EmptyBrief(call_sid)

\* what send_summary does: it sends, it returns at once because the e-mail
\* configuration is incomplete, or it raises
SendOutcomes == IF flaky THEN {"sent", "skipped", "raise"} ELSE {"sent"}

StatusAfterSend_propagates(delivery) ==
    IF delivery = "raise" THEN "done" ELSE "s_clear_sess"

\* where status_callback goes on after send_summary: the except clause logs
\* what was raised and the finally clause clears the session
StatusAfterSend(delivery) == "s_clear_sess"

IsCompleted_any(call_status) == TRUE

\* the test that guards summarization and clearing in status_callback()
IsCompleted(call_status) == call_status = "completed"

\* the session a handler saves: one slot written, the stage advanced
Advanced(sess, key, value, profile) ==
    [sess EXCEPT !.state = next_state(sess.state, profile),
                 !.data = DataSet(sess.data, key, value)]

(***************************************************************************)
(* Requests.                                                               *)
(***************************************************************************)
NoResp == [kind |-> "", say |-> "", spoken |-> ""]

Idle == [pc |-> "idle", route |-> "", cid |-> "", speech |-> NoText,
         digits |-> "", status |-> "", sess |-> FreshSession,
         history |-> <<>>, generation |-> "", summary |-> <<>>, delivery |-> "",
         removed |-> FALSE,
         resp |-> NoResp]

\* The store outlives a request (and, with Redis, the process): a behaviour
\* starts with an empty store, or with what the first turns of earlier
\* professional dialogues left in it.  The dialogue of a call is /voice, then
\* /resposta with Digits=1, then /resposta turns answering city, experience
\* and handle; SeedDialogue(mem, c, n) is the store after its first n answers.
SeedCity == <<"G", "o", "i", "a", "n", "i", "a">>
SeedExperience == <<"f", "i", "t", "a">>
SeedHandle == <<"a", "r", "r", "o", "b", "a", " ", "g", "l", "a", "m">>
SeedAnswers == <<SeedCity, SeedExperience, SeedHandle>>

EmptyStore == [k \in {} |-> k]

RECURSIVE SeedDialogue(_, _, _)
SeedDialogue(mem, c, n) ==
    IF n = 0
    THEN LET m0 == append_conv(save_session(mem, c, FreshSession), c,
                               "assistant", <<"[saudacao]">>)
             profile == ClassifyProfile(NoText, "1")
         IN  save_session(m0, c, Advanced(FreshSession, "profile", profile, profile))
    ELSE LET m == SeedDialogue(mem, c, n - 1)
             sess == get_session(m, c)
             answer == SeedAnswers[n]
         IN  save_session(append_conv(m, c, "user", answer), c,
                          Advanced(sess, SlotOf(sess.state),
                                   SlotValue(sess.state, answer), "none"))

\* the stores a behaviour may start with: nothing, or CA1 asked for consent
\* and CA2 asked for the handle
SeedStores ==
    { EmptyStore,
      SeedDialogue(SeedDialogue(EmptyStore, "CA1", 3), "CA2", 2) }

Start ==
    /\ memory \in SeedStores
    /\ req = [w \in Workers |-> Idle]
    /\ autosend \in BOOLEAN
    /\ summarized = [c \in CallIds |-> 0]
    /\ dispatched = [c \in CallIds |-> 0]
    /\ completed = [c \in CallIds |-> 0]
    /\ waMsgs = [c \in CallIds |-> 0]
    /\ retries = [c \in CallIds |-> 0]
    /\ nreq = 0
    /\ text = <<>>
    /\ norm = <<>>

\* every collaborator answers: the in-memory store, tone rewriting off
Reliable == flaky = FALSE /\ redis = FALSE /\ useGptTone = FALSE

\* the server handles requests in threads, concurrently; autosend is on: with
\* it off a consenting turn does what it does with it on when the send fails
Init == Start /\ Reliable /\ serial = FALSE /\ autosend = TRUE

\* the server handles one request at a time
InitSeq == Start /\ Reliable /\ serial = TRUE

\* one request at a time, with tone rewriting on and OpenAI and SMTP calls
\* that may fail
InitFaults ==
    Start /\ flaky = TRUE /\ redis = FALSE /\ useGptTone = TRUE /\ serial = TRUE

\* one request at a time, over a Redis store that may fail on any command
InitRedis ==
    Start /\ flaky = FALSE /\ redis = TRUE /\ useGptTone = FALSE /\ serial = TRUE

\* a worker is free before its first request and once it has responded; the
\* record of its last request stays until it is handed the next one
Free(w) == req[w].pc \in {"idle", "done"}

\* a request is handed to the first free worker
FirstIdle(w) ==
    \E i \in 1..Len(WorkerOrder) :
        /\ WorkerOrder[i] = w
        /\ Free(w)
        /\ \A j \in 1..(i - 1) : ~Free(WorkerOrder[j])

Accept(w) ==
    /\ FirstIdle(w)
    /\ IF serial THEN /\ nreq < (IF redis THEN MaxRedis
                                   ELSE IF flaky THEN MaxFaulty ELSE MaxRequests)
                       /\ \A v \in Workers : Free(v)
                 ELSE nreq < MaxConcurrent
    /\ nreq' = nreq + 1
    /\ UNCHANGED fixed

\* the request record once the worker has returned the response `kind` whose
\* text is `say`, spoken as `spoken`
Reply(r, kind, say, spoken) ==
    [r EXCEPT !.pc = "done", !.resp = [kind |-> kind, say |-> say, spoken |-> spoken]]

\* the worker returns a response that is not rewritten
Respond(w, kind, say) == req' = [req EXCEPT ![w] = Reply(@, kind, say, say)]

\* the worker returns a response spoken through glam_tone
Speak(w, kind, say) ==
    \E outcome \in ToneOutcomes :
        req' = [req EXCEPT ![w] = Reply(@, kind, say, glam_tone(say, outcome))]

Goto(w, pc) == req' = [req EXCEPT ![w].pc = pc]

\* one more reprompt in a row for call c, counted up to RetryCap + 1
Retried(c) ==
    retries' = [retries EXCEPT ![c] = IF @ > RetryCap THEN @ ELSE @ + 1]

Settled(c) == retries' = [retries EXCEPT ![c] = 0]

\* ---- /voice ----
VoiceBegin(w, c) ==
    /\ Accept(w)
    /\ \E ok \in StoreOutcomes :
         memory' = try_save_session(memory, c, FreshSession, ok)
    /\ req' = [req EXCEPT ![w] = [Idle EXCEPT !.pc = "v_log", !.route = "voice", !.cid = c]]
    /\ Settled(c)
    /\ UNCHANGED <<summarized, dispatched, completed, waMsgs>>

VoiceLog(w) ==
    /\ req[w].pc = "v_log"
    /\ \E ok \in StoreOutcomes :
         memory' = try_append_conv(memory, req[w].cid, "assistant", <<"[saudacao]">>, ok)
    /\ Speak(w, "gather", "first_prompt")
    /\ UNCHANGED <<summarized, dispatched, completed, waMsgs, retries, nreq, fixed>>

\* ---- /resposta ----
\* the get_session calls of lines 349-352 read the store and keep nothing
RespostaBegin(w, c, speechResult, digits) ==
    LET speech == Strip(speechResult)
    IN  /\ Accept(w)
        /\ \E ok \in StoreOutcomes :
             memory' = IF speech # NoText
                       THEN try_append_conv(memory, c, "user", speech, ok)
                       ELSE memory
        /\ req' = [req EXCEPT ![w] = [Idle EXCEPT !.pc = "r_load", !.route = "resposta",
                                        !.cid = c, !.speech = speech, !.digits = digits]]
        /\ UNCHANGED <<summarized, dispatched, completed, waMsgs, retries>>

RespostaLoad(w) ==
    /\ req[w].pc = "r_load"
    /\ \E ok \in StoreOutcomes :
         req' = [req EXCEPT ![w].pc = "r_handle",
                            ![w].sess = try_get_session(memory, req[w].cid, ok)]
    /\ UNCHANGED <<memory, summarized, dispatched, completed, waMsgs, retries, nreq, fixed>>

HandleClassify(w) ==
    LET r == req[w]
        profile == ClassifyProfile(r.speech, r.digits)
        sess == Advanced(r.sess, "profile", profile, profile)
    IN  IF profile = "none"
        THEN /\ Speak(w, "gather", "reprompt_classify")
             /\ Retried(r.cid)
             /\ UNCHANGED memory
        ELSE /\ \E ok \in StoreOutcomes :
                  memory' = try_save_session(memory, r.cid, sess, ok)
             /\ Settled(r.cid)
             /\ IF profile = "final"
                THEN req' = [req EXCEPT ![w].pc = "r_final_log", ![w].sess = sess]
                ELSE \E outcome \in ToneOutcomes :
                       req' = [req EXCEPT ![w] =
                                 Reply([@ EXCEPT !.sess = sess], "gather", "ask_city",
                                       glam_tone("ask_city", outcome))]

HandleSlot(w) ==
    LET r == req[w]
        state == r.sess.state
        sess == Advanced(r.sess, SlotOf(state), SlotValue(state, r.speech), "none")
    IN  IF r.speech = NoText
        THEN /\ Speak(w, "gather", "reprompt_" \o state)
             /\ UNCHANGED <<memory, retries>>
        ELSE /\ \E ok \in StoreOutcomes :
                  memory' = try_save_session(memory, r.cid, sess, ok)
             /\ \E outcome \in ToneOutcomes :
                  req' = [req EXCEPT ![w] =
                            Reply([@ EXCEPT !.sess = sess], "gather", sess.state,
                                  glam_tone(sess.state, outcome))]
             /\ UNCHANGED retries

HandleWhatsapp(w) ==
    LET r == req[w]
        consent == Consent(r.speech, r.digits)
        sess == Advanced(r.sess, "wa_consent", consent = "yes", "none")
    IN  IF consent = "none"
        THEN /\ Speak(w, "gather", "reprompt_ask_whatsapp")
             /\ Retried(r.cid)
             /\ UNCHANGED memory
        ELSE /\ \E ok \in StoreOutcomes :
                  memory' = try_save_session(memory, r.cid, sess, ok)
             /\ Settled(r.cid)
             /\ req' = [req EXCEPT ![w].sess = sess,
                                   ![w].pc = IF consent = "yes" /\ autosend
                                             THEN "r_wa_send" ELSE "r_wrap_log"]

RespostaHandle(w) ==
    /\ req[w].pc = "r_handle"
    /\ LET branch == Branch(req[w].sess.state)
       IN  IF branch = "classify" THEN HandleClassify(w)
           ELSE IF branch \in {"ask_city", "ask_experience", "ask_instagram"}
                THEN HandleSlot(w)
           ELSE IF branch = "ask_whatsapp" THEN HandleWhatsapp(w)
           ELSE /\ Speak(w, "gather", "reprompt_default")
                /\ UNCHANGED <<memory, retries>>
    /\ UNCHANGED <<summarized, dispatched, completed, waMsgs, nreq, fixed>>

RespostaFinalLog(w) ==
    /\ req[w].pc = "r_final_log"
    /\ \E ok \in StoreOutcomes :
         memory' = try_append_conv(memory, req[w].cid, "assistant", <<"[final_flow]">>, ok)
    /\ Speak(w, "hangup", "final_flow")
    /\ UNCHANGED <<summarized, dispatched, completed, waMsgs, retries, nreq, fixed>>

\* twilio_client.messages.create: accepted, or raises
RespostaWaSend(w) ==
    /\ req[w].pc = "r_wa_send"
    /\ \E accepted \in BOOLEAN :
         IF accepted
         THEN /\ waMsgs' = [waMsgs EXCEPT ![req[w].cid] = @ + 1]
              /\ req' = [req EXCEPT ![w].pc = "r_wa_save", ![w].sess.wa_sent = TRUE]
         ELSE /\ Goto(w, "r_wrap_log")
              /\ UNCHANGED waMsgs
    /\ UNCHANGED <<memory, summarized, dispatched, completed, retries, nreq, fixed>>

RespostaWaSave(w) ==
    /\ req[w].pc = "r_wa_save"
    /\ \E ok \in StoreOutcomes :
         memory' = try_save_session(memory, req[w].cid, req[w].sess, ok)
    /\ Goto(w, "r_wa_log")
    /\ UNCHANGED <<summarized, dispatched, completed, waMsgs, retries, nreq, fixed>>

RespostaWaLog(w) ==
    /\ req[w].pc = "r_wa_log"
    /\ \E ok \in StoreOutcomes :
         memory' = try_append_conv(memory, req[w].cid, "assistant",
                                   <<"[whatsapp enviado]">>, ok)
    /\ Goto(w, "r_wrap_log")
    /\ UNCHANGED <<summarized, dispatched, completed, waMsgs, retries, nreq, fixed>>

RespostaWrapLog(w) ==
    /\ req[w].pc = "r_wrap_log"
    /\ \E ok \in StoreOutcomes :
         memory' = try_append_conv(memory, req[w].cid, "assistant",
                                   wrap_up(req[w].sess.data), ok)
    /\ Speak(w, "wrap_gather", "wrap_up")
    /\ UNCHANGED <<summarized, dispatched, completed, waMsgs, retries, nreq, fixed>>

\* ---- /wrap_followup ----
WrapFollowup(w, c) ==
    /\ Accept(w)
    /\ req' = [req EXCEPT ![w] = Reply([Idle EXCEPT !.route = "wrap_followup", !.cid = c],
                                      "hangup", "obrigada", "obrigada")]
    /\ UNCHANGED <<memory, summarized, dispatched, completed, waMsgs, retries>>

\* ---- /status_callback ----
\* A 'completed' notification reads the log, then summarizes and dispatches:
\* two external calls that touch nothing the other workers see, taken here
\* in the step of the read.  Whatever send_summary does, the finally clause
\* (clear_session) runs next.
StatusBegin(w, c, call_status) ==
    /\ Accept(w)
    /\ IF IsCompleted(call_status)
       THEN /\ \E ok \in StoreOutcomes, outcome \in SummaryOutcomes, delivery \in SendOutcomes :
                 LET history == try_get_conv(memory, c, ok)
                 IN  req' = [req EXCEPT ![w] =
                               [Idle EXCEPT !.pc = StatusAfterSend(delivery),
                                            !.route = "status_callback",
                                            !.cid = c, !.status = call_status,
                                            !.history = history,
                                            !.generation = outcome,
                                            !.summary = summarize_history(history, c, outcome),
                                            !.delivery = delivery]]
            /\ summarized' = [summarized EXCEPT ![c] = @ + 1]
            /\ dispatched' = [dispatched EXCEPT ![c] = @ + 1]
       ELSE /\ req' = [req EXCEPT ![w] =
                         Reply([Idle EXCEPT !.route = "status_callback",
                                            !.cid = c, !.status = call_status],
                               "204", "", "")]
            /\ UNCHANGED <<summarized, dispatched>>
    /\ UNCHANGED <<memory, completed, waMsgs, retries>>

\* clear_session: two delete commands in one try block; when the first raises
\* the second is not issued
StatusClearSess(w) ==
    /\ req[w].pc = "s_clear_sess"
    /\ \E ok \in StoreOutcomes :
         IF ok
         THEN /\ memory' = mem_delete(memory, sess_key(req[w].cid))
              /\ req' = [req EXCEPT ![w].pc = "s_clear_conv",
                                    ![w].removed = sess_key(req[w].cid) \in DOMAIN memory]
              /\ Settled(req[w].cid)
              /\ UNCHANGED completed
         ELSE /\ completed' = [completed EXCEPT ![req[w].cid] = @ + 1]
              /\ Respond(w, "204", "")
              /\ UNCHANGED <<memory, retries>>
    /\ UNCHANGED <<summarized, dispatched, waMsgs, nreq, fixed>>

StatusClearConv(w) ==
    /\ req[w].pc = "s_clear_conv"
    /\ \E ok \in StoreOutcomes :
         memory' = IF ok THEN mem_delete(memory, conv_key(req[w].cid)) ELSE memory
    /\ completed' = [completed EXCEPT ![req[w].cid] = @ + 1]
    /\ req' = [req EXCEPT ![w] = Reply([@ EXCEPT !.removed = FALSE], "204", "", "")]
    /\ UNCHANGED <<summarized, dispatched, waMsgs, retries, nreq, fixed>>

(***************************************************************************)
(* Specifications.                                                         *)
(***************************************************************************)
Arrive ==
    \E w \in Workers, c \in CallIds :
        \/ VoiceBegin(w, c)
        \/ \E s \in Speeches, d \in DigitInputs : RespostaBegin(w, c, s, d)
        \/ WrapFollowup(w, c)
        \/ \E st \in Statuses : StatusBegin(w, c, st)

Step ==
    \E w \in Workers :
        \/ VoiceLog(w)
        \/ RespostaLoad(w)
        \/ RespostaHandle(w)
        \/ RespostaFinalLog(w)
        \/ RespostaWaSend(w)
        \/ RespostaWaSave(w)
        \/ RespostaWaLog(w)
        \/ RespostaWrapLog(w)
        \/ StatusClearSess(w)
        \/ StatusClearConv(w)

Next == Arrive \/ Step

\* requests served concurrently, one per worker
Spec == Init /\ [][Next]_vars

\* requests served one after the other
SpecSeq == InitSeq /\ [][Next]_vars

\* requests served one after the other while OpenAI and SMTP may fail
SpecFaults == InitFaults /\ [][Next]_vars

\* requests served one after the other while the store may fail
SpecRedis == InitRedis /\ [][Next]_vars

(***************************************************************************)
(* The handle normaliser on its own: an input text, normalised again and   *)
(* again.                                                                  *)
(***************************************************************************)
\* the pieces the input texts are made of: the spoken "arroba" in two letter
\* cases and split by a space, a space, an "@", lower- and upper-case letters
Tokens == {
    <<"a", "r", "r", "o", "b", "a">>,
    <<"A", "r", "r", "o", "b", "a">>,
    <<"a", "r", "r">>,
    <<"o", "b", "a">>,
    <<" ">>,
    <<"@">>,
    <<"j", "o">>,
    <<"J">> }

RECURSIVE TextsOf(_)
TextsOf(n) ==
    IF n = 0 THEN {<<>>}
    ELSE LET shorter == TextsOf(n - 1)
         IN  shorter \cup {t \o k : t \in shorter, k \in Tokens}

HandleTexts == TextsOf(MaxTokens)

Quiet ==
    /\ memory = EmptyStore
    /\ req = [w \in Workers |-> Idle]
    /\ autosend = FALSE
    /\ summarized = [c \in CallIds |-> 0]
    /\ dispatched = [c \in CallIds |-> 0]
    /\ completed = [c \in CallIds |-> 0]
    /\ waMsgs = [c \in CallIds |-> 0]
    /\ retries = [c \in CallIds |-> 0]
    /\ nreq = 0
    /\ serial = TRUE
    /\ Reliable

InitHandle == Quiet /\ text \in HandleTexts /\ norm = <<>>

\* looks_like_instagram applied to the text, then to each result
Normalize ==
    /\ Len(norm) < 2
    /\ norm' = Append(norm, looks_like_instagram(IF norm = <<>> THEN text
                                                 ELSE norm[Len(norm)]))
    /\ UNCHANGED <<memory, req, autosend, summarized, dispatched, completed,
                   waMsgs, nreq, serial, flaky, redis, useGptTone, retries, text>>

SpecHandle == InitHandle /\ [][Normalize]_vars

(***************************************************************************)
(* The consent stage on its own: /resposta turns, one after the other,     *)
(* for calls whose first turns are in the store, with utterances that hold *)
(* an affirmation keyword, a negation keyword, both or neither.            *)
(***************************************************************************)
SayNaoQuero == <<"n", "a~", "o", " ", "q", "u", "e", "r", "o">>
SayNaoPode == <<"N", "a", "o", " ", "p", "o", "d", "e">>
SayTalvez == <<"t", "a", "l", "v", "e", "z">>
SayOne == <<"1">>
SayTwo == <<" ", "2">>

\* SpeechResult values of the turns of the consent stage
ConsentSpeeches ==
    {NoText, SayYes, SayNo, SayNaoQuero, SayNaoPode, SayTalvez, SayOne, SayTwo}
\* Digits values of the turns of the consent stage: none, or one key pressed
ConsentDigits == DigitInputs \cup {"3"}

InitConsent == Start /\ Reliable /\ serial = TRUE /\ memory # EmptyStore

ConsentTurn(w, c, speechResult, digits) ==
    /\ nreq < MaxConsentTurns
    /\ RespostaBegin(w, c, speechResult, digits)

NextConsent ==
    \/ \E w \in Workers, c \in CallIds, s \in ConsentSpeeches, d \in ConsentDigits :
          ConsentTurn(w, c, s, d)
    \/ \E w \in Workers :
          \/ RespostaLoad(w)
          \/ RespostaHandle(w)
          \/ RespostaWaSend(w)
          \/ RespostaWaSave(w)
          \/ RespostaWaLog(w)
          \/ RespostaWrapLog(w)

SpecConsent == InitConsent /\ [][NextConsent]_vars

(***************************************************************************)
(* What the properties below speak of.                                     *)
(***************************************************************************)
HasSession(mem, c) == sess_key(c) \in DOMAIN mem
HasLog(mem, c) == conv_key(c) \in DOMAIN mem

\* the stage a turn of call c observes through get_session
StageOf(mem, c) == get_session(mem, c).state

\* what the store holds under a key: <<value>>, or <<>> when the key is absent
Held(mem, key) == IF key \in DOMAIN mem THEN <<mem[key]>> ELSE <<>>

\* this step is taken by worker w
Acts(w) == req'[w] # req[w]

\* this step is taken by worker w serving a /resposta request
RespostaStep(w) == Acts(w) /\ req'[w].route = "resposta"

\* this step is the handler of a /resposta request: lines 366-486 up to the
\* first save_session or the reprompt
HandlerStep(w) == req[w].pc = "r_handle" /\ req'[w].pc # "r_handle"

TableEdges == {
    <<"classify", "ask_city">>,
    <<"classify", "final_flow">>,
    <<"ask_city", "ask_experience">>,
    <<"ask_experience", "ask_instagram">>,
    <<"ask_instagram", "ask_whatsapp">>,
    <<"ask_whatsapp", "wrap">> }

Reprompts == {"reprompt_classify", "reprompt_ask_city", "reprompt_ask_experience",
              "reprompt_ask_instagram", "reprompt_ask_whatsapp", "reprompt_default"}

StageOrder == <<"classify", "ask_city", "ask_experience", "ask_instagram",
                "ask_whatsapp", "wrap">>

Rank(stage) == CHOOSE i \in 1..Len(StageOrder) : StageOrder[i] = stage

\* stage b is not behind stage a: the order of the professional path, and
\* final_flow entered from classify only and never left
NotBackward(a, b) ==
    IF a = "final_flow" THEN b = "final_flow"
    ELSE IF b = "final_flow" THEN a = "classify"
    ELSE Rank(b) >= Rank(a)

SlotKeys == {"city", "experience", "instagram", "wa_consent"}

(***************************************************************************)
(* C1.  A 'completed' notification processed twice for one call id runs    *)
(* summarize_history and send_summary exactly once in total.               *)
(* The code keeps no marker of a processed notification: each one          *)
(* summarizes and dispatches again.                                        *)
(***************************************************************************)
C1_CompletedTwiceSummarizedOnce ==
    \A c \in CallIds :
        completed[c] >= 2 => summarized[c] = 1 /\ dispatched[c] = 1

(***************************************************************************)
(* C2.  Every /resposta turn leaves the stored stage as it was or moves it *)
(* along an edge of the table; from classify it moves to ask_city with     *)
(* profile pro and to final_flow with profile final.                       *)
(***************************************************************************)
C2_StageFollowsTable ==
    [][\A w \in Workers : RespostaStep(w) =>
          \A c \in CallIds :
              LET a == StageOf(memory, c)
                  b == StageOf(memory', c)
                  data == get_session(memory', c).data
              IN  \/ a = b
                  \/ /\ <<a, b>> \in TableEdges
                     /\ b = "ask_city" => data["profile"] = "pro"
                     /\ b = "final_flow" => data["profile"] = "final"]_vars

\* the turn "Eu sou cabeleireira" with no digit has moved a call from
\* classify to ask_city with profile pro
C2_Witness ==
    \E w \in Workers :
        /\ req[w].pc = "done" /\ req[w].route = "resposta"
        /\ req[w].speech = SayPro /\ req[w].digits = ""
        /\ req[w].resp.say = "ask_city"
        /\ HasSession(memory, req[w].cid)
        /\ StageOf(memory, req[w].cid) = "ask_city"
        /\ get_session(memory, req[w].cid).data["profile"] = "pro"

(***************************************************************************)
(* C3.  While the session of a call id exists, the stage observed through  *)
(* get_session never moves backward, whatever requests are processed.      *)
(* /voice saves a fresh session over the stored one: a second /voice for   *)
(* the same call id moves the stage back to classify.                      *)
(***************************************************************************)
C3_StageNeverBackward ==
    [][\A c \in CallIds :
          (HasSession(memory, c) /\ HasSession(memory', c)) =>
              NotBackward(StageOf(memory, c), StageOf(memory', c))]_vars

(***************************************************************************)
(* C4.  When a /resposta turn carries a digit, the digit decides: in stage *)
(* classify '1' gives profile pro and '2' profile final; in stage          *)
(* ask_whatsapp '1' gives consent true and '2' consent false, whatever the *)
(* speech says.                                                            *)
(* The classify handler tests the professional keywords of the speech      *)
(* before the digit '2'.                                                   *)
(***************************************************************************)
C4_DigitDecides ==
    [][\A w \in Workers : (HandlerStep(w) /\ req[w].digits \in {"1", "2"}) =>
          LET r == req[w]
              saved == get_session(memory', r.cid).data
          IN  /\ r.sess.state = "classify" =>
                    saved["profile"] = (IF r.digits = "1" THEN "pro" ELSE "final")
              /\ r.sess.state = "ask_whatsapp" =>
                    saved["wa_consent"] = (r.digits = "1")]_vars

(***************************************************************************)
(* C5.  A session in final_flow has profile final and no city, experience, *)
(* handle or consent slot; a later /resposta turn leaves it as it is,      *)
(* sends no WhatsApp message and answers with the default reprompt; and    *)
(* the turn that classifies the caller as final ends with a hang-up.       *)
(***************************************************************************)
FinalSessionsBare ==
    \A c \in CallIds :
        (HasSession(memory, c) /\ StageOf(memory, c) = "final_flow") =>
            LET data == get_session(memory, c).data
            IN  data["profile"] = "final" /\ DOMAIN data \cap SlotKeys = {}

C5_FinalIsTerminal ==
    /\ []FinalSessionsBare
    /\ [][\A w \in Workers : RespostaStep(w) =>
             LET c == req'[w].cid
             IN  /\ (HasSession(memory, c) /\ StageOf(memory, c) = "final_flow"
                                            /\ req[w].pc # "r_final_log") =>
                       /\ Held(memory', sess_key(c)) = Held(memory, sess_key(c))
                       /\ waMsgs' = waMsgs
                       /\ req'[w].pc \in {"r_load", "r_handle", "done"}
                       /\ req'[w].pc = "done" =>
                             (req'[w].resp.kind = "gather"
                                 /\ req'[w].resp.say = "reprompt_default")
                 /\ (StageOf(memory, c) # "final_flow" /\ StageOf(memory', c) = "final_flow") =>
                       req'[w].pc = "r_final_log"
                 /\ req[w].pc = "r_final_log" =>
                       (req'[w].pc = "done" /\ req'[w].resp.kind = "hangup")]_vars

\* a later turn that pressed 1 was answered by the default reprompt, the
\* session still in final_flow
C5_Witness ==
    \E w \in Workers :
        /\ req[w].pc = "done" /\ req[w].route = "resposta"
        /\ req[w].digits = "1"
        /\ req[w].resp.say = "reprompt_default"
        /\ HasSession(memory, req[w].cid)
        /\ StageOf(memory, req[w].cid) = "final_flow"

(***************************************************************************)
(* C6.  The get_session -> mutate -> save_session sequence of a /resposta  *)
(* turn is exclusive per call id: a handler saves over the session it      *)
(* read, so no two requests advance the stage from the same read and no    *)
(* slot write is lost.                                                     *)
(* Nothing guards the sequence: a second worker reads the same session     *)
(* before the first saves, and its save replaces the first one's.          *)
(***************************************************************************)
C6_SaveOverOwnRead ==
    [][\A w \in Workers : (HandlerStep(w) /\ memory' # memory) =>
          get_session(memory, req[w].cid) = req[w].sess]_vars

(***************************************************************************)
(* C7.  A step of a request for one call id leaves the session, the log    *)
(* and the counters of every other call id as they were.                   *)
(***************************************************************************)
C7_CallsIsolated ==
    [][\A w \in Workers : Acts(w) =>
          \A b \in CallIds \ {req'[w].cid} :
              /\ Held(memory', sess_key(b)) = Held(memory, sess_key(b))
              /\ Held(memory', conv_key(b)) = Held(memory, conv_key(b))
              /\ summarized'[b] = summarized[b]
              /\ dispatched'[b] = dispatched[b]
              /\ waMsgs'[b] = waMsgs[b]]_vars

\* two workers have served turns of two calls, which left different sessions
C7_Witness ==
    \E w, v \in Workers :
        /\ req[w].cid # req[v].cid
        /\ req[w].route = "resposta" /\ req[v].route = "resposta"
        /\ req[w].pc = "done" /\ req[v].pc = "done"
        /\ HasSession(memory, req[w].cid) /\ HasSession(memory, req[v].cid)
        /\ get_session(memory, req[w].cid) # get_session(memory, req[v].cid)
        /\ req[w].speech # NoText /\ req[v].speech # NoText

(***************************************************************************)
(* C8.  A /resposta turn with empty speech and empty digit changes nothing *)
(* in the store and is answered by a reprompt that keeps listening.        *)
(***************************************************************************)
C8_EmptyTurnReprompts ==
    [][\A w \in Workers :
          (RespostaStep(w) /\ req'[w].speech = NoText /\ req'[w].digits = "") =>
              /\ memory' = memory
              /\ req'[w].pc \in {"r_load", "r_handle", "done"}
              /\ req'[w].pc = "done" =>
                    (req'[w].resp.kind = "gather" /\ req'[w].resp.say \in Reprompts)]_vars

\* an empty turn was answered by the consent reprompt, the session still
\* waiting for the consent
C8_Witness ==
    \E w \in Workers :
        /\ req[w].pc = "done" /\ req[w].route = "resposta"
        /\ req[w].speech = NoText /\ req[w].digits = ""
        /\ req[w].resp.kind = "gather" /\ req[w].resp.say = "reprompt_ask_whatsapp"
        /\ StageOf(memory, req[w].cid) = "ask_whatsapp"
        /\ "wa_consent" \notin DOMAIN get_session(memory, req[w].cid).data

(***************************************************************************)
(* C9.  looks_like_instagram is idempotent: normalising a normalised       *)
(* handle gives it back.                                                   *)
(* str.replace("arroba", "@") runs before lower() and before the spaces    *)
(* are removed: "Arroba jo" gives "@arrobajo", which gives "@@jo".         *)
(***************************************************************************)
C9_NormaliseIdempotent == Len(norm) = 2 => norm[2] = norm[1]

(***************************************************************************)
(* C10. Only the steps of a /status_callback request with CallStatus       *)
(* 'completed' summarize, dispatch, or remove a session or a log; a        *)
(* notification with another status changes neither store nor counters.    *)
(***************************************************************************)
\* this step is taken by a worker serving a 'completed' notification for c
CompletedStep(c) ==
    \E w \in Workers :
        /\ Acts(w)
        /\ req'[w].route = "status_callback"
        /\ req'[w].status = "completed"
        /\ req'[w].cid = c

C10_OnlyCompletedClears ==
    [][/\ \A c \in CallIds :
             \/ CompletedStep(c)
             \/ /\ HasSession(memory, c) => HasSession(memory', c)
                /\ HasLog(memory, c) => HasLog(memory', c)
                /\ summarized'[c] = summarized[c]
                /\ dispatched'[c] = dispatched[c]
       /\ \A w \in Workers :
             (Acts(w) /\ req'[w].route = "status_callback"
                      /\ req'[w].status # "completed") =>
                 /\ memory' = memory
                 /\ summarized' = summarized /\ dispatched' = dispatched
                 /\ req'[w].pc = "done" /\ req'[w].resp.kind = "204"]_vars

\* a turn has ended the call leg with a hang-up and a notification with
\* another status was processed: session and log are still stored
C10_Witness ==
    \E w, v \in Workers :
        /\ req[w].pc = "done" /\ req[w].route = "resposta"
        /\ req[w].resp.kind = "hangup"
        /\ req[v].pc = "done" /\ req[v].route = "status_callback"
        /\ req[v].status = "ringing" /\ req[v].cid = req[w].cid
        /\ HasSession(memory, req[w].cid) /\ HasLog(memory, req[w].cid)
        /\ summarized[req[w].cid] = 0

(***************************************************************************)
(* C11. Every processing of a 'completed' notification hands a brief to    *)
(* send_summary; when the generation call fails the brief is the degraded  *)
(* one: the call id, the 'unavailable' label, and one line per entry of    *)
(* the transcript, in its order, with the entry's role and verbatim text.  *)
(***************************************************************************)
\* the lines of a text: its pieces between the newline marks
RECURSIVE SplitLines(_)
SplitLines(t) ==
    IF \A i \in 1..Len(t) : t[i] # "\n" THEN <<t>>
    ELSE LET k == CHOOSE i \in 1..Len(t) :
                      t[i] = "\n" /\ \A j \in 1..(i - 1) : t[j] # "\n"
         IN  <<SubSeq(t, 1, k - 1)>> \o SplitLines(SubSeq(t, k + 1, Len(t)))

\* this step is worker w taking a 'completed' notification
CompletedArrives(w) ==
    /\ Free(w) /\ Acts(w)
    /\ req'[w].route = "status_callback"
    /\ req'[w].status = "completed"

C11_BriefAlwaysProduced ==
    [][\A w \in Workers : CompletedArrives(w) =>
          LET r == req'[w]
              lines == SplitLines(r.summary)
          IN  /\ r.summary # <<>>
              /\ dispatched'[r.cid] = dispatched[r.cid] + 1
              /\ r.history \in {get_conv(memory, r.cid), <<>>}
              /\ r.generation = "raise" =>
                    /\ Len(lines) = 2 + (IF r.history = <<>> THEN 1 ELSE Len(r.history))
                    /\ lines[1] = <<"CallSid: ", r.cid>>
                    /\ lines[2][1] = "Resumo indisponivel (erro ao gerar)."
                    /\ \A i \in 1..Len(r.history) :
                          lines[2 + i] = <<r.history[i].role, ": ">> \o r.history[i].content]_vars

\* the generation failed for a call with several logged turns, and the
\* notification was answered
C11_Witness ==
    \E w \in Workers :
        /\ req[w].pc = "done" /\ req[w].route = "status_callback"
        /\ req[w].generation = "raise"
        /\ Len(req[w].history) >= 3
        /\ Len(SplitLines(req[w].summary)) = 2 + Len(req[w].history)
        /\ req[w].resp.kind = "204"

(***************************************************************************)
(* C12. A 'completed' notification for a call id with no stored session    *)
(* and no stored turns is processed without error, and the brief is the    *)
(* explicit 'no history' brief whether the generation succeeds or fails.   *)
(* summarize_history sends the prompt to the generator also when the       *)
(* transcript is empty, and returns whatever text it answers.              *)
(***************************************************************************)
C12_UnknownCallNoHistoryBrief ==
    [][\A w \in Workers :
          (CompletedArrives(w) /\ ~HasSession(memory, req'[w].cid)
                               /\ ~HasLog(memory, req'[w].cid)) =>
              LET r == req'[w]
              IN  /\ r.history = <<>>
                  /\ r.pc = "s_clear_sess"
                  /\ r.summary \in {DegradedBrief(<<>>, r.cid), EmptyBrief(r.cid)}]_vars


(***************************************************************************)
(* C13. At most one WhatsApp message is sent for a call id, whatever       *)
(* /voice and /resposta requests are processed, duplicated or concurrent   *)
(* ones included.                                                          *)
(* The handler sets wa_sent and never reads it: two turns that both read   *)
(* the session in ask_whatsapp both send.                                  *)
(***************************************************************************)
C13_WhatsappAtMostOnce == \A c \in CallIds : waMsgs[c] <= 1


(***************************************************************************)
(* C14. The conversation log of a call id is append-only: every step that  *)
(* is not a step of clear_session for that call id leaves the log as a     *)
(* prefix of what it is afterwards.                                        *)
(***************************************************************************)
IsPrefix(s, t) == Len(s) <= Len(t) /\ SubSeq(t, 1, Len(s)) = s

\* this step is taken by a worker inside clear_session for call c
ClearStep(c) ==
    \E w \in Workers :
        Acts(w) /\ req[w].pc \in {"s_clear_sess", "s_clear_conv"} /\ req[w].cid = c

C14_LogAppendOnly ==
    [][\A c \in CallIds :
          ClearStep(c) \/ IsPrefix(get_conv(memory, c), get_conv(memory', c))]_vars

\* a turn has put the caller's answer and the closing words behind the four
\* entries the log held before
C14_Witness ==
    \E w \in Workers :
        LET log == get_conv(memory, req[w].cid)
        IN  /\ req[w].pc = "done" /\ req[w].route = "resposta"
            /\ req[w].speech # NoText
            /\ Len(log) >= 6
            /\ log[Len(log) - 1] = [role |-> "user", content |-> req[w].speech]
            /\ log[Len(log)].role = "assistant"


(***************************************************************************)
(* C15. When send_summary raises while a 'completed' notification is       *)
(* processed, the request goes on to clear_session: the session and the    *)
(* conversation log of the call id are deleted and the response is the     *)
(* normal 204.                                                             *)
(***************************************************************************)
\* this step is taken by worker w, at pc, after its send_summary has raised
AfterFailedSend(w, pc) ==
    Acts(w) /\ req[w].pc = pc /\ req[w].delivery = "raise"

C15_DeliveryFailureContained ==
    [][\A w \in Workers :
          LET c == req'[w].cid
          IN  /\ (CompletedArrives(w) /\ req'[w].delivery = "raise") =>
                    req'[w].pc = "s_clear_sess"
              /\ AfterFailedSend(w, "s_clear_sess") =>
                    (req'[w].pc = "s_clear_conv" /\ ~HasSession(memory', c))
              /\ AfterFailedSend(w, "s_clear_conv") =>
                    /\ req'[w].pc = "done" /\ req'[w].resp.kind = "204"
                    /\ ~HasSession(memory', c) /\ ~HasLog(memory', c)]_vars

\* a notification whose delivery failed was answered 204, the session and
\* the log that were stored for the call id gone
C15_Witness ==
    \E w \in Workers :
        /\ req[w].pc = "done" /\ req[w].route = "status_callback"
        /\ req[w].delivery = "raise"
        /\ req[w].history # <<>>
        /\ req[w].resp.kind = "204"
        /\ ~HasSession(memory, req[w].cid) /\ ~HasLog(memory, req[w].cid)


(***************************************************************************)
(* C16. A /resposta turn that advances the stage persists the session with *)
(* the slot written and leaves, at the end of the log, the caller's input  *)
(* of the turn followed by the reply spoken in the turn.                   *)
(* Only the final_flow and wrap replies are appended; the prompts returned *)
(* through speak_and_gather are not, and a digit is never echoed.          *)
(***************************************************************************)
\* this step ends a /resposta turn of worker w that advanced the stage
AdvancingTurnEnds(w) ==
    /\ RespostaStep(w)
    /\ req[w].pc # "done" /\ req'[w].pc = "done"
    /\ req'[w].resp.say \notin Reprompts

C16_AdvanceLogsBothSides ==
    [][\A w \in Workers : AdvancingTurnEnds(w) =>
          LET c == req'[w].cid
              log == get_conv(memory', c)
          IN  /\ HasSession(memory', c)
              /\ get_session(memory', c) = req'[w].sess
              /\ Len(log) >= 2
              /\ log[Len(log)].role = "assistant"
              /\ log[Len(log) - 1].role = "user"]_vars


(***************************************************************************)
(* C17. The reprompt loop is bounded: no call id receives more than        *)
(* RetryCap reprompts in a row in stage classify or ask_whatsapp; the next *)
(* unclassifiable turn gets a closing message instead.                     *)
(* The handlers keep no retry counter: every unclassifiable turn is        *)
(* answered by the reprompt again.                                         *)
(***************************************************************************)
C17_RepromptsCapped == \A c \in CallIds : retries[c] <= RetryCap


(***************************************************************************)
(* C18. A store command that fails never fails the request: a failed       *)
(* get_session gives the fresh session, a failed get_conv the empty        *)
(* transcript, a failed save_session, append_conv or clear_session leaves  *)
(* the store as it was, and the normal response is returned.               *)
(* clear_session issues two delete commands in one try block: when the     *)
(* second one fails the session is already gone and the log stays.         *)
(***************************************************************************)
\* this step is taken by worker w from position pc
StepAt(w, pc) == Acts(w) /\ req[w].pc = pc

C18_StoreFailureHarmless ==
    [][\A w \in Workers :
          LET c == req[w].cid
          IN  /\ StepAt(w, "r_load") =>
                    req'[w].sess \in {get_session(memory, c), FreshSession}
              /\ CompletedArrives(w) =>
                    req'[w].history \in {get_conv(memory, req'[w].cid), <<>>}
              /\ StepAt(w, "v_log") =>
                    (req'[w].pc = "done" /\ req'[w].resp.kind = "gather")
              /\ StepAt(w, "s_clear_sess") =>
                    (req'[w].pc = "done" => (memory' = memory /\ req'[w].resp.kind = "204"))
              \* the log is still stored after the second delete: it failed
              /\ (StepAt(w, "s_clear_conv") /\ HasLog(memory', c)) =>
                    (~req[w].removed /\ req'[w].resp.kind = "204")]_vars


(***************************************************************************)
(* C19. A failing external call of a /resposta turn affects that turn      *)
(* only.  The text spoken is the rewritten prompt or, when glam_tone       *)
(* fails, the base prompt itself; a failed WhatsApp send changes neither   *)
(* store nor session, leaves wa_sent false and goes on to the wrap-up; and *)
(* at the end of the turn the stored session is the one the turn computed  *)
(* from its inputs, at the stage whose prompt is returned.                 *)
(***************************************************************************)
\* the stage whose prompt a response speaks
PromptStage(say) ==
    IF say = "wrap_up" THEN "wrap" ELSE say

C19_ExternalFailureContained ==
    [][\A w \in Workers : RespostaStep(w) =>
          LET c == req'[w].cid
              r == req'[w]
          IN  /\ (req[w].pc # "done" /\ r.pc = "done") =>
                    /\ r.resp.spoken \in {r.resp.say, "glam " \o r.resp.say}
                    /\ r.resp.kind \in {"gather", "hangup", "wrap_gather"}
                    /\ get_session(memory', c) = r.sess
                    /\ r.resp.say \notin Reprompts => PromptStage(r.resp.say) = r.sess.state
                    /\ r.sess.wa_sent => waMsgs'[c] > 0
              /\ (StepAt(w, "r_wa_send") /\ waMsgs' = waMsgs) =>
                    /\ r.pc = "r_wrap_log"
                    /\ memory' = memory
                    /\ r.sess = req[w].sess /\ ~r.sess.wa_sent
                    /\ r.sess.state = "wrap" /\ r.sess.data["wa_consent"]]_vars

\* a turn gave consent, the send failed, and the turn ended with the wrap-up
\* spoken unrewritten: the stored session is in wrap with wa_sent false
C19_Witness ==
    \E w \in Workers :
        /\ req[w].pc = "done" /\ req[w].route = "resposta"
        /\ autosend /\ useGptTone
        /\ req[w].resp.say = "wrap_up" /\ req[w].resp.spoken = "wrap_up"
        /\ waMsgs[req[w].cid] = 0
        /\ HasSession(memory, req[w].cid)
        /\ StageOf(memory, req[w].cid) = "wrap"
        /\ get_session(memory, req[w].cid).data["wa_consent"]
        /\ ~get_session(memory, req[w].cid).wa_sent


(***************************************************************************)
(* C20. In every state where a WhatsApp message has been sent for a call   *)
(* id, the session recorded for that call id has wa_consent true and       *)
(* profile pro.                                                            *)
(* The message is sent after the consenting session was saved, but the     *)
(* stored session is replaced afterwards by a repeated /voice (C3) or by   *)
(* the save of a concurrent turn that read the same session (C6).          *)
(***************************************************************************)
C20_SentImpliesConsent ==
    \A c \in CallIds :
        (waMsgs[c] > 0 /\ HasSession(memory, c)) =>
            LET data == get_session(memory, c).data
            IN  /\ "wa_consent" \in DOMAIN data /\ data["wa_consent"]
                /\ "profile" \in DOMAIN data /\ data["profile"] = "pro"


(***************************************************************************)
(* C21. With requests served one after the other, every stored session     *)
(* has the slots of its stage: ask_city has profile pro and no city;       *)
(* ask_experience a non-empty city; ask_instagram city and experience;     *)
(* ask_whatsapp a non-empty handle as well; wrap a consent that is true or *)
(* false; final_flow profile final and no city, experience, handle or      *)
(* consent.                                                                *)
(***************************************************************************)
\* the slot is written and its text is not empty
Filled(data, key) == key \in DOMAIN data /\ data[key] # <<>>

StageSlotsConsistent(sess) ==
    LET state == sess.state
        data == sess.data
        profile == IF "profile" \in DOMAIN data THEN data["profile"] ELSE "none"
    IN  /\ state = "ask_city" => (profile = "pro" /\ "city" \notin DOMAIN data)
        /\ state = "ask_experience" => Filled(data, "city")
        /\ state = "ask_instagram" =>
              ("city" \in DOMAIN data /\ "experience" \in DOMAIN data)
        /\ state = "ask_whatsapp" =>
              /\ "city" \in DOMAIN data /\ "experience" \in DOMAIN data
              /\ Filled(data, "instagram")
        /\ state = "wrap" =>
              ("wa_consent" \in DOMAIN data /\ data["wa_consent"] \in BOOLEAN)
        /\ state = "final_flow" =>
              (profile = "final" /\ DOMAIN data \cap SlotKeys = {})

C21_StoredSessionsConsistent ==
    \A c \in CallIds :
        HasSession(memory, c) => StageSlotsConsistent(get_session(memory, c))

\* two turns of this behaviour took a call through the handle and the
\* consent: its session is in wrap with every slot written
C21_Witness ==
    \E w \in Workers :
        LET sess == get_session(memory, req[w].cid)
        IN  /\ req[w].pc = "done" /\ req[w].route = "resposta"
            /\ HasSession(memory, req[w].cid)
            /\ sess.state = "wrap"
            /\ DOMAIN sess.data = {"profile"} \cup SlotKeys
            /\ sess.data["instagram"] \in
                  {looks_like_instagram(s) : s \in Speeches \ {NoText}}



(***************************************************************************)
(* C22. Once a 'completed' notification for a call id has been processed   *)
(* and the store holds neither session nor log for it, no step of a        *)
(* /resposta request for that call id, delivered late or in flight at the  *)
(* time, stores a session or a log entry for it again.                     *)
(* A late turn appends its speech to the log, reads the fresh session in   *)
(* place of the deleted one and saves it advanced; a turn in flight saves  *)
(* the session it had read before the deletion.                            *)
(***************************************************************************)
C22_ClearedStaysCleared ==
    [][\A w \in Workers :
          LET c == req'[w].cid
          IN  (RespostaStep(w) /\ completed[c] >= 1
                  /\ ~HasSession(memory, c) /\ ~HasLog(memory, c)) =>
                 (~HasSession(memory', c) /\ ~HasLog(memory', c))]_vars


(***************************************************************************)
(* C23. In stage ask_whatsapp with no digit '1' or '2', an utterance that  *)
(* holds both an affirmation keyword and a negation keyword is recorded as *)
(* consent true; consent false is recorded only for an utterance that      *)
(* holds no affirmation keyword and is not the text '1', and that holds a  *)
(* negation keyword or is the text '2'.                                    *)
(***************************************************************************)
\* the utterance, as the tests read it, holds one of the words
HoldsWord(speech, words) ==
    \E w \in words : Contains(Lower(Strip(speech)), w)

\* the utterance, as the tests read it, is the key name
IsKeyName(speech, key) == Lower(Strip(speech)) = <<key>>

\* this step is the ask_whatsapp handler of worker w, no digit '1' or '2'
ConsentFromSpeech(w) ==
    /\ HandlerStep(w)
    /\ req[w].sess.state = "ask_whatsapp"
    /\ req[w].digits \notin {"1", "2"}

\* the consent the step has recorded in the stored session: <<value>>, or
\* <<>> when it recorded none
RecordedConsent(w) ==
    LET data == get_session(memory', req[w].cid).data
    IN  IF memory' # memory /\ "wa_consent" \in DOMAIN data
        THEN <<data["wa_consent"]>> ELSE <<>>

C23_AffirmationFirst ==
    [][\A w \in Workers : ConsentFromSpeech(w) =>
          LET speech == req[w].speech
          IN  /\ (HoldsWord(speech, YesWords) /\ HoldsWord(speech, NoWords)) =>
                    RecordedConsent(w) = <<TRUE>>
              /\ RecordedConsent(w) = <<FALSE>> =>
                    /\ ~HoldsWord(speech, YesWords) /\ ~IsKeyName(speech, "1")
                    /\ HoldsWord(speech, NoWords) \/ IsKeyName(speech, "2")]_vars

\* the statement as the claim has it: consent false is recorded only for an
\* utterance that holds a negation keyword and no affirmation keyword
C23_NegationNeedsKeyword ==
    [][\A w \in Workers : ConsentFromSpeech(w) =>
          LET speech == req[w].speech
          IN  /\ (HoldsWord(speech, YesWords) /\ HoldsWord(speech, NoWords)) =>
                    RecordedConsent(w) = <<TRUE>>
              /\ RecordedConsent(w) = <<FALSE>> =>
                    (HoldsWord(speech, NoWords) /\ ~HoldsWord(speech, YesWords))]_vars

\* the turn "nao quero" with no digit ended with the consent stored as true
C23_Witness ==
    \E w \in Workers :
        /\ req[w].pc = "done" /\ req[w].route = "resposta"
        /\ req[w].speech = SayNaoQuero /\ req[w].digits = ""
        /\ req[w].resp.say = "wrap_up"
        /\ StageOf(memory, req[w].cid) = "wrap"
        /\ get_session(memory, req[w].cid).data["wa_consent"] = TRUE

=============================================================================
